---- MODULE Spec2Model ----
(***************************************************************************)
(* Model of libdispatch/dutil.c (netcdf-c): the string utilities           *)
(* NC_backslashEscape, NC_backslashUnescape, NC_entityescape,              *)
(* NC_shellUnescape, NC_split_delim, NC_join, NC_getmodelist, NC_testmode. *)
(*                                                                         *)
(* A C string is a sequence of one-character strings (its bytes before the *)
(* terminating NUL).  A pointer is a record [null, val].  Every function   *)
(* is called from the idle state with arguments drawn from bounded sets;   *)
(* NC_backslashUnescape is modelled one loop iteration per step, with its  *)
(* read pointer p and write pointer q, because its reads can leave the     *)
(* input buffer.                                                           *)
(***************************************************************************)
EXTENDS Integers, Sequences, FiniteSets, TLC

VARIABLES pc, fn, in, res, p, q, s

vars == <<pc, fn, in, res, p, q, s>>

(* ------------------------------ bounds -------------------------------- *)

\* longest input string of the escape / unescape functions
MaxLen == 3
\* longest input string of NC_split_delim
MaxSplitLen == 4
\* longest mode string of NC_getmodelist / NC_testmode
MaxModeLen == 3
\* most segments in a list handed to NC_join
MaxSegs == 2
\* how many bytes past the input's terminating NUL the scan of
\* NC_backslashUnescape is followed
MaxOverrun == 2
\* longest segment in a list handed to NC_join
MaxSegLen == 2
\* longest tag handed to NC_testmode
MaxTagLen == 2
\* the latest malloc call of one NC_split_delim that may be made to fail
MaxFail == 2

(* --------------------------- values ----------------------------------- *)

\* the terminating NUL byte of a C string
NUL == ""

NULLP == [null |-> TRUE, val |-> <<>>]

Ptr(v) == [null |-> FALSE, val |-> v]

\* all strings over alphabet A of length at most n
Str(A, n) == UNION {[1..k -> A] : k \in 0..n}

EscChars == {"\\", "/", ".", "@", "a"}

EntityChars == {"&", "<", ">", "\"", "'", "a"}

ShellChars == {"\\", "#", "x"}

SplitChars == {",", "/", "a"}

ModeChars == {",", "a", "A", "b"}

TagChars == {"a", "A", "b"}

\* the inputs the documentation gives as examples
EntitySample == <<"<", "a", "&", "b", ">">>

ShellSample == <<"\\", "#", "x", "\\", "y">>

SplitSample == <<"a", ",", ",", "b">>

JoinSample == << <<"a">>, <<"b">> >>

\* the byte at 0-based offset i of the C string str: its characters, then NUL
ByteAt(str, i) == IF i < Len(str) THEN str[i + 1] ELSE NUL

(* --------------------- NC_backslashEscape ----------------------------- *)

RECURSIVE BackslashEscapeLoop_KeepChar(_, _, _)
\* variant: the second byte written for a reserved character is the
\* character itself (*q++ = '\\'; *q++ = c;)
BackslashEscapeLoop_KeepChar(str, i, esc) ==
    IF ByteAt(str, i) = NUL THEN esc
    ELSE LET c == ByteAt(str, i)
         IN  IF c \in {"\\", "/", ".", "@"}
             THEN BackslashEscapeLoop_KeepChar(str, i + 1, esc \o <<"\\", c>>)
             ELSE BackslashEscapeLoop_KeepChar(str, i + 1, Append(esc, c))

RECURSIVE BackslashEscapeLoop(_, _, _)
\* the for loop of NC_backslashEscape: i is the offset of p, esc the bytes
\* written through q so far
BackslashEscapeLoop(str, i, esc) ==
    IF ByteAt(str, i) = NUL THEN esc
    ELSE LET c == ByteAt(str, i)
         IN  IF c \in {"\\", "/", ".", "@"}
             THEN BackslashEscapeLoop(str, i + 1, esc \o <<"\\", "\\">>)
             ELSE BackslashEscapeLoop(str, i + 1, Append(esc, c))

\* NC_backslashEscape(s); oom: malloc returns NULL
NC_backslashEscape(str, oom) ==
    IF oom THEN NULLP ELSE Ptr(BackslashEscapeLoop(str, 0, <<>>))

(* ----------------------- NC_entityescape ------------------------------ *)

\* variant: the cases '<' and '>' carry each other's entity
Entity_Swapped(c) ==
    CASE c = "&"  -> <<"&", "a", "m", "p", ";">>
      [] c = "<"  -> <<"&", "g", "t", ";">>
      [] c = ">"  -> <<"&", "l", "t", ";">>
      [] c = "\"" -> <<"&", "q", "u", "o", "t", ";">>
      [] c = "'"  -> <<"&", "a", "p", "o", "s", ";">>
      [] OTHER    -> <<>>

\* the switch of NC_entityescape: the entity of c, or <<>> for entity = NULL
Entity(c) ==
    CASE c = "&"  -> <<"&", "a", "m", "p", ";">>
      [] c = "<"  -> <<"&", "l", "t", ";">>
      [] c = ">"  -> <<"&", "g", "t", ";">>
      [] c = "\"" -> <<"&", "q", "u", "o", "t", ";">>
      [] c = "'"  -> <<"&", "a", "p", "o", "s", ";">>
      [] OTHER    -> <<>>

RECURSIVE EntityEscapeLoop(_, _, _)
EntityEscapeLoop(str, i, esc) ==
    IF ByteAt(str, i) = NUL THEN esc
    ELSE LET c == ByteAt(str, i)
             entity == Entity(c)
         IN  IF entity = <<>>
             THEN EntityEscapeLoop(str, i + 1, Append(esc, c))
             ELSE EntityEscapeLoop(str, i + 1, esc \o entity)

\* NC_entityescape(s); oom: malloc returns NULL
NC_entityescape(str, oom) ==
    IF oom THEN NULLP ELSE Ptr(EntityEscapeLoop(str, 0, <<>>))

(* ----------------------- NC_shellUnescape ----------------------------- *)

RECURSIVE ShellUnescapeLoop_AnyBackslash(_, _, _)
\* variant: the test if(p[1] == '#') is missing, every backslash is skipped
\* unless it is the last byte
ShellUnescapeLoop_AnyBackslash(esc, i, out) ==
    IF ByteAt(esc, i) = NUL THEN out
    ELSE LET j == IF ByteAt(esc, i) = "\\" /\ ByteAt(esc, i + 1) # NUL
                  THEN i + 1 ELSE i
         IN  ShellUnescapeLoop_AnyBackslash(esc, j + 1, Append(out, ByteAt(esc, j)))

RECURSIVE ShellUnescapeLoop(_, _, _)
\* one pass of the loop: at a backslash followed by '#' p is advanced first,
\* then (fall through) *q++ = *p++
ShellUnescapeLoop(esc, i, out) ==
    IF ByteAt(esc, i) = NUL THEN out
    ELSE LET j == IF ByteAt(esc, i) = "\\" /\ ByteAt(esc, i + 1) = "#"
                  THEN i + 1 ELSE i
         IN  ShellUnescapeLoop(esc, j + 1, Append(out, ByteAt(esc, j)))

\* NC_shellUnescape(esc); esc is a pointer; oom: malloc returns NULL
NC_shellUnescape(esc, oom) ==
    IF esc.null THEN NULLP
    ELSE IF oom THEN NULLP
    ELSE Ptr(ShellUnescapeLoop(esc.val, 0, <<>>))

(* ------------------------- NC_split_delim ----------------------------- *)

\* error codes (netcdf.h), kept by name
NC_NOERR == "NC_NOERR"

NC_EINVAL == "NC_EINVAL"

NC_ENOMEM == "NC_ENOMEM"

NC_EURL == "NC_EURL"

RECURSIVE strchr(_, _, _)
\* strchr(p, delim) on the string arg with p at offset i: the offset of the
\* first delim at or after i, or -1 for NULL
strchr(arg, i, delim) ==
    IF ByteAt(arg, i) = NUL THEN -1
    ELSE IF ByteAt(arg, i) = delim THEN i
    ELSE strchr(arg, i + 1, delim)

\* variant: one byte too few is copied (memcpy(seg,p,len-1))
Segment_Short(arg, i, len) == SubSeq(arg, i + 1, i + len - 1)

\* the bytes of arg at offsets i .. i+len-1 (memcpy(seg,p,len); seg[len]=0)
Segment(arg, i, len) == SubSeq(arg, i + 1, i + len)

RECURSIVE SplitLoop_SkipEmpty(_, _, _, _, _, _)
\* variant: an empty run is stepped over instead of being an error
SplitLoop_SkipEmpty(arg, delim, i, segments, nalloc, failAt) ==
    IF ByteAt(arg, i) = NUL
    THEN [stat |-> NC_NOERR, segments |-> segments]
    ELSE LET f == strchr(arg, i, delim)
             j == IF f = -1 THEN Len(arg) ELSE f
             len == j - i
         IN  IF len = 0
             THEN SplitLoop_SkipEmpty(arg, delim, i + 1, segments, nalloc, failAt)
             ELSE IF nalloc + 1 = failAt
             THEN [stat |-> NC_ENOMEM, segments |-> segments]
             ELSE SplitLoop_SkipEmpty(arg, delim,
                            IF ByteAt(arg, j) # NUL THEN j + 1 ELSE j,
                            Append(segments, Segment(arg, i, len)),
                            nalloc + 1, failAt)

RECURSIVE SplitLoop(_, _, _, _, _, _)
\* the for(;*p;) loop of NC_split_delim.  i: offset of p; segments: the
\* caller's list, pushed to in place; nalloc: malloc calls so far; failAt:
\* the malloc call that returns NULL (0: none does)
SplitLoop(arg, delim, i, segments, nalloc, failAt) ==
    IF ByteAt(arg, i) = NUL
    THEN [stat |-> NC_NOERR, segments |-> segments]
    ELSE LET f == strchr(arg, i, delim)
             j == IF f = -1 THEN Len(arg) ELSE f
             len == j - i
         IN  IF len = 0
             THEN [stat |-> NC_EURL, segments |-> segments]
             ELSE IF nalloc + 1 = failAt
             THEN [stat |-> NC_ENOMEM, segments |-> segments]
             ELSE SplitLoop(arg, delim,
                            IF ByteAt(arg, j) # NUL THEN j + 1 ELSE j,
                            Append(segments, Segment(arg, i, len)),
                            nalloc + 1, failAt)

\* NC_split_delim(arg, delim, segments): arg and segments are pointers; the
\* result is the status and the caller's list as the call leaves it
NC_split_delim(arg, delim, segments, failAt) ==
    IF arg.null \/ Len(arg.val) = 0 \/ segments.null
    THEN [stat |-> NC_NOERR, segments |-> segments]
    ELSE LET start == IF ByteAt(arg.val, 0) = delim THEN 1 ELSE 0
             r == SplitLoop(arg.val, delim, start, segments.val, 0, failAt)
         IN  [stat |-> r.stat, segments |-> Ptr(r.segments)]

(* ----------------------------- NC_join -------------------------------- *)

RECURSIVE JoinLoop_AlwaysSlash(_, _, _)
\* variant: the test if(seg[0] != '/') is missing
JoinLoop_AlwaysSlash(segments, i, buf) ==
    IF i >= Len(segments) THEN buf
    ELSE JoinLoop_AlwaysSlash(segments, i + 1, Append(buf, "/") \o segments[i + 1])

RECURSIVE JoinLoop(_, _, _)
\* the for loop of NC_join over the list; buf: the bytes of the NCbytes
JoinLoop(segments, i, buf) ==
    IF i >= Len(segments) THEN buf
    ELSE LET seg == segments[i + 1]
             b1 == IF ByteAt(seg, 0) # "/" THEN Append(buf, "/") ELSE buf
         IN  JoinLoop(segments, i + 1, b1 \o seg)

\* NC_join(segments, pathp): oom: ncbytesnew returns NULL; pathp: whether
\* the caller passed a non-null pathp; path: what *pathp receives
NC_join(segments, pathp, oom) ==
    IF segments.null THEN [stat |-> NC_EINVAL, path |-> NULLP]
    ELSE IF oom THEN [stat |-> NC_ENOMEM, path |-> NULLP]
    ELSE LET buf == IF Len(segments.val) = 0 THEN <<"/">>
                    ELSE JoinLoop(segments.val, 0, <<>>)
         IN  [stat |-> NC_NOERR, path |-> IF pathp THEN Ptr(buf) ELSE NULLP]

(* --------------------------- NC_getmodelist --------------------------- *)

\* NC_getmodelist(modestr, modelistp): modestr is a pointer, modelistp
\* whether the out parameter is non-null; list: what *modelistp receives
NC_getmodelist(modestr, modelistp, failAt) ==
    LET modelist == Ptr(<<>>)
        r == IF modestr.null \/ Len(modestr.val) = 0
             THEN [stat |-> NC_NOERR, segments |-> modelist]
             ELSE NC_split_delim(modestr, ",", modelist, failAt)
    IN  IF r.stat = NC_NOERR
        THEN [stat |-> r.stat, list |-> IF modelistp THEN r.segments ELSE NULLP]
        ELSE [stat |-> r.stat, list |-> NULLP]

(* ----------------------------- NC_testmode ---------------------------- *)

\* tolower on the modelled characters
tolower(c) ==
    CASE c = "A" -> "a"
      [] c = "B" -> "b"
      [] OTHER   -> c

\* variant: strcmp in place of strcasecmp
strcasecmp_CaseSensitive(a, b) == IF a = b THEN 0 ELSE 1

\* strcasecmp(a, b): 0 when equal ignoring case, 1 otherwise
strcasecmp(a, b) ==
    IF Len(a) = Len(b) /\ \A i \in 1..Len(a) : tolower(a[i]) = tolower(b[i])
    THEN 0 ELSE 1

RECURSIVE ncurifragmentlookup(_, _, _)
\* ncurifragmentlookup(uri, key): the value of the first fragment pair with
\* that key, NULL when there is none (uri: a sequence of [key, value])
ncurifragmentlookup(uri, key, i) ==
    IF i > Len(uri) THEN NULLP
    ELSE IF uri[i].key = key THEN Ptr(uri[i].value)
    ELSE ncurifragmentlookup(uri, key, i + 1)

RECURSIVE SearchTag(_, _, _)
\* the search loop of NC_testmode: found = 1 and break on the first match
SearchTag(modelist, tag, i) ==
    IF i >= Len(modelist) THEN 0
    ELSE IF strcasecmp(modelist[i + 1], tag) = 0 THEN 1
    ELSE SearchTag(modelist, tag, i + 1)

\* NC_testmode(uri, tag): found is the return value, stat the local status
NC_testmode(uri, tag, failAt) ==
    LET modestr == ncurifragmentlookup(uri, "mode", 1)
    IN  IF modestr.null THEN [found |-> 0, stat |-> NC_NOERR]
        ELSE LET r == NC_getmodelist(modestr, TRUE, failAt)
             IN  IF r.stat # NC_NOERR THEN [found |-> 0, stat |-> r.stat]
                 ELSE [found |-> SearchTag(r.list.val, tag, 0),
                       stat |-> NC_NOERR]

(* ------------------------ the calls, as a state machine --------------- *)

\* arguments of the call in progress (unused ones keep these values)
NoIn == [arg |-> NULLP, delim |-> NUL, tag |-> <<>>, uri |-> <<>>,
         segments |-> NULLP, outp |-> FALSE, failAt |-> 0, src |-> NULLP]

\* results of the call (unused ones keep these values)
NoRes == [stat |-> NC_NOERR, str |-> NULLP, segments |-> NULLP, found |-> 0]

Init ==
    /\ pc = "idle"
    /\ fn = "none"
    /\ in = NoIn
    /\ res = NoRes
    /\ p = 0
    /\ q = 0
    /\ s = <<>>

Oom(b) == IF b THEN 1 ELSE 0

CallBackslashEscape ==
    /\ pc = "idle"
    /\ \E str \in Str(EscChars, MaxLen), oom \in BOOLEAN :
          /\ in' = [NoIn EXCEPT !.arg = Ptr(str), !.failAt = Oom(oom)]
          /\ res' = [NoRes EXCEPT !.str = NC_backslashEscape(str, oom)]
    /\ fn' = "NC_backslashEscape"
    /\ pc' = "done"
    /\ UNCHANGED <<p, q, s>>

CallEntityescape ==
    /\ pc = "idle"
    /\ \E str \in Str(EntityChars, MaxLen) \cup {EntitySample},
          oom \in BOOLEAN :
          /\ in' = [NoIn EXCEPT !.arg = Ptr(str), !.failAt = Oom(oom)]
          /\ res' = [NoRes EXCEPT !.str = NC_entityescape(str, oom)]
    /\ fn' = "NC_entityescape"
    /\ pc' = "done"
    /\ UNCHANGED <<p, q, s>>

CallShellUnescape ==
    /\ pc = "idle"
    /\ \E esc \in {NULLP} \cup {Ptr(str) : str \in Str(ShellChars, MaxLen)
                                                 \cup {ShellSample}},
          oom \in BOOLEAN :
          /\ in' = [NoIn EXCEPT !.arg = esc, !.failAt = Oom(oom)]
          /\ res' = [NoRes EXCEPT !.str = NC_shellUnescape(esc, oom)]
    /\ fn' = "NC_shellUnescape"
    /\ pc' = "done"
    /\ UNCHANGED <<p, q, s>>

\* the lists a caller of NC_split_delim passes: none, an empty one, or one
\* that already holds a segment
CallerLists == {NULLP, Ptr(<<>>), Ptr(<< <<"x">> >>)}

CallSplitDelim ==
    /\ pc = "idle"
    /\ \E arg \in {NULLP} \cup {Ptr(str) : str \in Str(SplitChars, MaxSplitLen)
                                                 \cup {SplitSample}},
          delim \in {",", "/"}, segments \in CallerLists, failAt \in 0..MaxFail :
          LET r == NC_split_delim(arg, delim, segments, failAt)
          IN  /\ in' = [NoIn EXCEPT !.arg = arg, !.delim = delim,
                                    !.segments = segments, !.failAt = failAt]
              /\ res' = [NoRes EXCEPT !.stat = r.stat, !.segments = r.segments]
    /\ fn' = "NC_split_delim"
    /\ pc' = "done"
    /\ UNCHANGED <<p, q, s>>

\* the lists of at most n segments
Lists(n) == UNION {[1..k -> Str({"/", "a"}, MaxSegLen)] : k \in 0..n}

CallJoin ==
    /\ pc = "idle"
    /\ \E segments \in {NULLP} \cup {Ptr(l) : l \in Lists(MaxSegs) \cup {JoinSample}},
          pathp \in BOOLEAN, oom \in BOOLEAN :
          LET r == NC_join(segments, pathp, oom)
          IN  /\ in' = [NoIn EXCEPT !.segments = segments, !.outp = pathp,
                                    !.failAt = Oom(oom)]
              /\ res' = [NoRes EXCEPT !.stat = r.stat, !.str = r.path]
    /\ fn' = "NC_join"
    /\ pc' = "done"
    /\ UNCHANGED <<p, q, s>>

ModeStrs == Str(ModeChars, MaxModeLen)

CallGetmodelist ==
    /\ pc = "idle"
    /\ \E modestr \in {NULLP} \cup {Ptr(str) : str \in ModeStrs},
          modelistp \in BOOLEAN, failAt \in 0..MaxFail :
          LET r == NC_getmodelist(modestr, modelistp, failAt)
          IN  /\ in' = [NoIn EXCEPT !.arg = modestr, !.outp = modelistp,
                                    !.failAt = failAt]
              /\ res' = [NoRes EXCEPT !.stat = r.stat, !.segments = r.list]
    /\ fn' = "NC_getmodelist"
    /\ pc' = "done"
    /\ UNCHANGED <<p, q, s>>

\* fragment stores: empty, one pair, or a "log" pair ahead of a "mode" pair
Uris ==
    {<<>>}
    \cup {<<[key |-> k, value |-> v]>> : k \in {"mode", "log"}, v \in ModeStrs}
    \cup {<<[key |-> "log", value |-> <<"a">>], [key |-> "mode", value |-> v]>> :
             v \in ModeStrs}

CallTestmode ==
    /\ pc = "idle"
    /\ \E uri \in Uris, tag \in Str(TagChars, MaxTagLen), failAt \in 0..MaxFail :
          LET r == NC_testmode(uri, tag, failAt)
          IN  /\ in' = [NoIn EXCEPT !.uri = uri, !.tag = tag, !.failAt = failAt]
              /\ res' = [NoRes EXCEPT !.stat = r.stat, !.found = r.found]
    /\ fn' = "NC_testmode"
    /\ pc' = "done"
    /\ UNCHANGED <<p, q, s>>

(* ----------------------- NC_backslashUnescape ------------------------- *)

\* the bytes a read outside the input's buffer can give
Indeterminate == EscChars \cup {NUL}

\* a read of the byte at offset i of esc gives c: inside the strlen(esc)+1
\* bytes of the input it is that byte, outside them any byte
Reads(esc, i, c) ==
    IF i <= Len(esc) THEN c = ByteAt(esc, i) ELSE c \in Indeterminate

RECURSIVE CString(_, _)
\* the C string held in buffer buf from index i: its bytes before the first NUL
CString(buf, i) ==
    IF i > Len(buf) \/ buf[i] = NUL THEN <<>>
    ELSE <<buf[i]>> \o CString(buf, i + 1)

\* entry of NC_backslashUnescape(esc) up to the loop: NULL for a NULL input
\* and when malloc fails, else p = esc, q = s
BeginUnescape(esc, src, oom) ==
    /\ in' = [NoIn EXCEPT !.arg = esc, !.src = src, !.failAt = Oom(oom)]
    /\ fn' = "NC_backslashUnescape"
    /\ res' = NoRes
    /\ pc' = IF esc.null \/ oom THEN "done" ELSE "loop"
    /\ p' = 0
    /\ q' = 0
    /\ s' = <<>>

CallBackslashUnescape ==
    /\ pc = "idle"
    /\ \E esc \in {NULLP} \cup {Ptr(str) : str \in Str(EscChars, MaxLen)},
          oom \in BOOLEAN :
          BeginUnescape(esc, NULLP, oom)

\* NC_backslashUnescape(NC_backslashEscape(s)): the escaper's result is
\* handed to the unescaper; src remembers s
CallUnescapeOfEscaped ==
    /\ pc = "done"
    /\ fn = "NC_backslashEscape"
    /\ ~res.str.null
    /\ \E oom \in BOOLEAN : BeginUnescape(res.str, in.arg, oom)

\* one pass of for(p=esc,q=s;*p;): the test *p, then the switch
UnescapeStep ==
    /\ pc = "loop"
    /\ p <= Len(in.arg.val) + MaxOverrun
    /\ \E c1 \in Indeterminate :
          /\ Reads(in.arg.val, p, c1)
          /\ IF c1 = NUL
             THEN /\ pc' = "done"
                  /\ res' = [res EXCEPT !.str = Ptr(CString(Append(s, NUL), 1))]
                  /\ s' = Append(s, NUL)
                  /\ UNCHANGED <<p, q>>
             ELSE LET p1 == IF c1 = "\\" THEN p + 1 ELSE p
                  IN  \E c2 \in Indeterminate :
                         /\ Reads(in.arg.val, p1, c2)
                         /\ p1 = p => c2 = c1
                         /\ s' = Append(s, c2)
                         /\ q' = q + 1
                         /\ p' = p1 + 1
                         /\ UNCHANGED <<pc, res>>
    /\ UNCHANGED <<fn, in>>

\* a read outside the input's buffer can also end the process
Fault ==
    /\ pc = "loop"
    /\ p > Len(in.arg.val)
    /\ pc' = "fault"
    /\ UNCHANGED <<fn, in, res, p, q, s>>

\* the call is over; the next one starts from the idle state
Return ==
    /\ pc \in {"done", "fault"}
    /\ pc' = "idle"
    /\ fn' = "none"
    /\ in' = NoIn
    /\ res' = NoRes
    /\ p' = 0
    /\ q' = 0
    /\ s' = <<>>

Next ==
    \/ CallBackslashEscape
    \/ CallBackslashUnescape
    \/ CallUnescapeOfEscaped
    \/ UnescapeStep
    \/ Fault
    \/ CallEntityescape
    \/ CallShellUnescape
    \/ CallSplitDelim
    \/ CallJoin
    \/ CallGetmodelist
    \/ CallTestmode
    \/ Return

Spec == Init /\ [][Next]_vars

(* ====================== the claims ==================================== *)

RECURSIVE Flatten(_)
\* the concatenation of a sequence of strings
Flatten(ss) == IF ss = <<>> THEN <<>> ELSE Head(ss) \o Flatten(Tail(ss))

\* each character of str replaced by the string F gives for it
Substitute(str, F(_)) == Flatten([i \in 1..Len(str) |-> F(str[i])])

RECURSIVE Pick(_, _, _)
\* the characters of str whose index is in K, in order, from index i on
Pick(str, i, K) ==
    IF i > Len(str) THEN <<>>
    ELSE (IF i \in K THEN <<str[i]>> ELSE <<>>) \o Pick(str, i + 1, K)

\* the segments with d between them
JoinWith(segs, d) ==
    Flatten([i \in 1..Len(segs) |-> IF i = 1 THEN segs[i] ELSE <<d>> \o segs[i]])

\* d occurs twice in a row in str
HasAdjacent(str, d) == \E i \in 1..(Len(str) - 1) : str[i] = d /\ str[i + 1] = d

\* the call of f has returned
Returned(f) == pc = "done" /\ fn = f

\* what the call of NC_split_delim pushed onto the caller's list
Pushed == SubSeq(res.segments.val, Len(in.segments.val) + 1, Len(res.segments.val))

\* ---- C1 ----------------------------------------------------------------
\* C1: round trip: NC_backslashUnescape(NC_backslashEscape(s)) equals s byte
\* for byte, for every s, also one holding '\', '/', '.' or '@'.
C1_RoundTrip ==
    (Returned("NC_backslashUnescape") /\ ~in.src.null /\ ~res.str.null)
        => res.str.val = in.src.val

\* ---- C2 ----------------------------------------------------------------
OnlyBackslashDoubled(c) == IF c = "\\" THEN <<"\\", "\\">> ELSE <<c>>

ReservedToBackslashes(c) ==
    IF c \in {"\\", "/", ".", "@"} THEN <<"\\", "\\">> ELSE <<c>>

C3_SplitRejectsEmpties ==
    (Returned("NC_split_delim") /\ ~in.arg.null /\ ~in.segments.null)
        => /\ HasAdjacent(in.arg.val, in.delim)
                => /\ res.stat \in {NC_EURL, NC_ENOMEM}
                   /\ in.failAt = 0 => res.stat = NC_EURL
           /\ ~res.segments.null
           /\ Len(res.segments.val) >= Len(in.segments.val)
           /\ SubSeq(res.segments.val, 1, Len(in.segments.val)) = in.segments.val
           /\ \A k \in 1..Len(Pushed) :
                 /\ Len(Pushed[k]) > 0
                 /\ \A i \in 1..Len(Pushed[k]) : Pushed[k][i] # in.delim

C3_Witness ==
    /\ Returned("NC_split_delim")
    /\ in.arg.val = SplitSample
    /\ in.delim = ","
    /\ in.segments = Ptr(<<>>)
    /\ in.failAt = 0
    /\ res.stat = NC_EURL

\* ---- C4 ----------------------------------------------------------------
\* the delimiter d is not the first character of str, not the last, and
\* never occurs twice in a row
WellDelimited(str, d) ==
    /\ Len(str) > 0
    /\ str[1] # d
    /\ str[Len(str)] # d
    /\ ~HasAdjacent(str, d)

\* C4: split validity: for a non-empty s with the delimiter d not first, not
\* last and never doubled, NC_split_delim(s, d) succeeds (no allocation
\* failing) and the segments it pushes, with d between them, reproduce s.
C4_SplitValidity ==
    (/\ Returned("NC_split_delim")
     /\ ~in.arg.null
     /\ ~in.segments.null
     /\ WellDelimited(in.arg.val, in.delim)
     /\ res.stat # NC_ENOMEM)
        => /\ res.stat = NC_NOERR
           /\ JoinWith(Pushed, in.delim) = in.arg.val

C4_Witness ==
    /\ Returned("NC_split_delim")
    /\ in.arg.val = <<"a", ",", "/", "a">>
    /\ in.delim = ","
    /\ in.segments = Ptr(<<>>)
    /\ res.stat = NC_NOERR
    /\ res.segments = Ptr(<< <<"a">>, <<"/", "a">> >>)

\* ---- C5 ----------------------------------------------------------------
\* a segment with a '/' put in front unless it starts with one
Rooted(seg) == IF Len(seg) > 0 /\ seg[1] = "/" THEN seg ELSE <<"/">> \o seg

\* the canonical path of a segment sequence
Canonical(segs) ==
    IF segs = <<>> THEN <<"/">>
    ELSE Flatten([i \in 1..Len(segs) |-> Rooted(segs[i])])

\* C5: join canonical form: NC_join fails with NC_EINVAL for a null list;
\* for any other list (ncbytesnew succeeding) it succeeds and gives "/" for
\* the empty list and else the segments in order, each with a '/' in front
\* exactly when it does not start with one.
C5_JoinCanonical ==
    Returned("NC_join")
        => /\ in.segments.null => (res.stat = NC_EINVAL /\ res.str.null)
           /\ (~in.segments.null /\ in.failAt = 0)
                => /\ res.stat = NC_NOERR
                   /\ in.outp => res.str = Ptr(Canonical(in.segments.val))
           /\ (in.segments = Ptr(JoinSample) /\ in.failAt = 0 /\ in.outp)
                => res.str = Ptr(<<"/", "a", "/", "b">>)
           /\ (in.segments = Ptr(<<>>) /\ in.failAt = 0 /\ in.outp)
                => res.str = Ptr(<<"/">>)
           /\ (in.segments = Ptr(<< <<"/", "a">> >>) /\ in.failAt = 0 /\ in.outp)
                => res.str = Ptr(<<"/", "a">>)

C5_Witness ==
    /\ Returned("NC_join")
    /\ in.segments = Ptr(<< <<"/", "a">>, <<"a">> >>)
    /\ in.outp
    /\ res.stat = NC_NOERR
    /\ res.str = Ptr(<<"/", "a", "/", "a">>)

\* ---- C6 ----------------------------------------------------------------
\* the values of the "mode" key in the fragment store (none when absent)
ModeValues == {in.uri[i].value : i \in {j \in 1..Len(in.uri) : in.uri[j].key = "mode"}}

\* the maximal non-empty comma-free runs of str
Runs(str) ==
    {SubSeq(str, ij[1], ij[2]) : ij \in
        {ij \in (1..Len(str)) \X (1..Len(str)) :
            /\ ij[1] <= ij[2]
            /\ \A k \in ij[1]..ij[2] : str[k] # ","
            /\ (ij[1] = 1 \/ str[ij[1] - 1] = ",")
            /\ (ij[2] = Len(str) \/ str[ij[2] + 1] = ",")}}

\* ASCII letters of the model folded to lower case
Folded(str) == [i \in 1..Len(str) |->
                   IF str[i] = "A" THEN "a" ELSE IF str[i] = "B" THEN "b" ELSE str[i]]

\* C6: mode membership: NC_testmode returns 1 exactly when the "mode" key is
\* present, its value splits on ',' without error and a segment equals the
\* tag ignoring case; it returns 0 when the key is absent, the value empty
\* or the value malformed (adjacent commas), whatever the tag.
C6_ModeMembership ==
    Returned("NC_testmode")
        => /\ res.found \in {0, 1}
           /\ ModeValues = {} => res.found = 0
           /\ \A v \in ModeValues :
                 /\ v = <<>> => res.found = 0
                 /\ HasAdjacent(v, ",") => (res.found = 0 /\ res.stat # NC_NOERR)
                 /\ (~HasAdjacent(v, ",") /\ in.failAt = 0) => res.stat = NC_NOERR
                 /\ res.found = 1
                       <=> /\ res.stat = NC_NOERR
                           /\ ~HasAdjacent(v, ",")
                           /\ \E r \in Runs(v) : Folded(r) = Folded(in.tag)

C6_Witness ==
    /\ Returned("NC_testmode")
    /\ ModeValues = {<<"b", ",", "a">>}
    /\ in.tag = <<"A">>
    /\ res.found = 1

\* ---- C7 ----------------------------------------------------------------
\* C7: no partial output escapes on failure: when NC_split_delim returns an
\* error the caller's list is as it was before the call, and when
\* NC_getmodelist returns an error it hands no list back.
C7_NoPartialOutput ==
    /\ (Returned("NC_split_delim") /\ res.stat # NC_NOERR)
           => res.segments = in.segments
    /\ (Returned("NC_getmodelist") /\ res.stat # NC_NOERR)
           => res.segments.null

\* ---- C8 ----------------------------------------------------------------
\* the indexes of the backslashes of str that stand right before a '#'
BeforeHash(str) ==
    {i \in 1..Len(str) : str[i] = "\\" /\ i < Len(str) /\ str[i + 1] = "#"}

\* C8: shell unescape selectivity: NC_shellUnescape drops exactly the
\* backslashes that stand right before a '#' and copies every other
\* character, in order; "\#x\y" gives "#x\y".
C8_ShellSelectivity ==
    (Returned("NC_shellUnescape") /\ ~in.arg.null /\ in.failAt = 0)
        => /\ ~res.str.null
           /\ res.str.val = Pick(in.arg.val, 1,
                                 (1..Len(in.arg.val)) \ BeforeHash(in.arg.val))
           /\ in.arg.val = ShellSample => res.str.val = <<"#", "x", "\\", "y">>

C8_Witness ==
    /\ Returned("NC_shellUnescape")
    /\ in.arg = Ptr(ShellSample)
    /\ res.str = Ptr(<<"#", "x", "\\", "y">>)

\* ---- C9 ----------------------------------------------------------------
\* the XML entity reference of a character, the character itself otherwise
Reference(c) ==
    IF c = "&" THEN <<"&", "a", "m", "p", ";">>
    ELSE IF c = "<" THEN <<"&", "l", "t", ";">>
    ELSE IF c = ">" THEN <<"&", "g", "t", ";">>
    ELSE IF c = "\"" THEN <<"&", "q", "u", "o", "t", ";">>
    ELSE IF c = "'" THEN <<"&", "a", "p", "o", "s", ";">>
    ELSE <<c>>

\* C9: entity escape: NC_entityescape replaces the ampersand, the angle
\* brackets and the double and single quote by their entity references and
\* copies every other character, in order, and the output with its NUL fits
\* the 6*len+1 bytes allocated.
C9_EntityEscape ==
    (Returned("NC_entityescape") /\ in.failAt = 0)
        => /\ ~res.str.null
           /\ res.str.val = Substitute(in.arg.val, Reference)
           /\ Len(res.str.val) + 1 <= 6 * Len(in.arg.val) + 1

C9_Witness ==
    /\ Returned("NC_entityescape")
    /\ in.arg.val = EntitySample
    /\ res.str = Ptr(<<"&", "l", "t", ";", "a", "&", "a", "m", "p", ";", "b",
                       "&", "g", "t", ";">>)

\* ---- C10 ---------------------------------------------------------------
\* C10: bounds safety of NC_backslashUnescape: the read position never moves
\* past the input's terminating NUL and the write position never moves past
\* the len+1 bytes of the output buffer.
C10_UnescapeInBounds ==
    fn = "NC_backslashUnescape"
        => /\ p <= Len(in.arg.val)
           /\ q <= Len(in.arg.val)

====
